---------------------------- MODULE Spec2Model ----------------------------
(***************************************************************************)
(* LTE link control (drivers/lte_link_control/lte_lc.c).                   *)
(*                                                                         *)
(* Two parts of the driver are modelled:                                   *)
(*  - w_lte_lc_connect together with the notification callback at_handler  *)
(*    and the semaphore `link` that joins them (specifications Spec, with  *)
(*    one calling thread, and SpecConc, with two);                         *)
(*  - lte_lc_psm_get, the decoder of the two PSM timer fields of the       *)
(*    AT+CEREG? reply (specification SpecPsm).                             *)
(*                                                                         *)
(* Characters are one-character strings, C strings are sequences of them,  *)
(* and error codes are the strings "0", "-EIO", "-EAGAIN", ...             *)
(***************************************************************************)
EXTENDS Integers, Sequences, FiniteSets, TLC

VARIABLES
    UseFallback,          \* IS_ENABLED(CONFIG_LTE_NETWORK_USE_FALLBACK)
    link,                 \* count of the semaphore `link` (limit 1)
    waitq,                \* threads pended on `link`
    handler,              \* the command channel's notification callback slot
    params,               \* TRUE while the shared at_param_list is initialised
    pc,                   \* per thread: the line w_lte_lc_connect is at
    current_network_mode, \* per thread: local of w_lte_lc_connect
    retry,                \* per thread: local of w_lte_lc_connect
    err,                  \* per thread: local of w_lte_lc_connect
    epoch,                \* history: number of connect calls started so far
    trace,                \* history, per thread: commands written and waits ended in this call
    lastGive,             \* history: the notification that last made at_handler give `link`,
                          \* and whether the callback decided on initialised bytes only
    sigInWait,            \* history, per thread: a registered notification came while pended
    regSeen,              \* history, per thread: a registered notification came during this call
    linkTag,              \* history: epoch in which the pending count of `link` was given
    wokeTag,              \* history, per thread: epoch of the give that ended the last wait
    linkAt,               \* history: where thread 1 was when the pending count of `link`
                          \* was given, and whether a registered notification gave it
    wokeAt,               \* history, per thread: the same of the give that ended the last wait
    idleNotif,            \* history: a registered notification came while no call was in flight
    psmIn,                \* lte_lc_psm_get: arguments and the modem's answers
    psmOut                \* lte_lc_psm_get: return value, outputs and commands written

connVars == <<UseFallback, link, waitq, handler, params, pc, current_network_mode,
              retry, err, epoch, trace, lastGive, sigInWait, regSeen, linkTag,
              wokeTag, linkAt, wokeAt, idleNotif>>
psmVars == <<psmIn, psmOut>>
vars == <<connVars, psmVars>>

---------------------------------------------------------------------------
(* Bounds *)

\* connect calls started in one behaviour
MaxCalls == 2

---------------------------------------------------------------------------
(* Constants of the program *)

Threads == {1, 2}

NULL == "NULL"
NUL == ""

nw_mode_preferred == "nw_mode_preferred"
nw_mode_fallback == "nw_mode_fallback"
normal == "AT+CFUN=1"
offline == "AT+CFUN=4"

\* the identifier compared by at_handler
CEREG == <<"+", "C", "E", "R", "E", "G">>

\* size_t len = 16 in at_handler
ID_BUF_LEN == 16

\* the number of bytes memcmp compares in at_handler
CEREG_CMP_LEN == 6

\* k_sem_init(&link, 0, 1)
LINK_INITIAL == 0
LINK_LIMIT == 1


---------------------------------------------------------------------------
(* Unsolicited notifications, as the parser leaves them in the parameter   *)
(* list: parameter 0 is the identifier token (a string) when the line has  *)
(* one, parameter 1 the status (an integer) when the line has one.         *)

RECURSIVE Pad(_, _)
Pad(s, n) == IF Len(s) >= n THEN s ELSE Pad(Append(s, NUL), n)

LongId == <<"%", "X", "L", "O", "N", "G", "N", "O", "T", "I", "F", "I", "C", "A", "T", "I", "O">>

Ids == {CEREG, CEREG \o <<"X">>, <<"+", "C", "S", "C", "O", "N">>,
        <<"+", "C", "G", "E", "V">>, <<>>, LongId}

Vals == {0, 1, 2, 5}

Notifs == [hasId : {TRUE}, id : Ids, hasVal : {TRUE}, val : Vals]
          \cup [hasId : {TRUE}, id : Ids, hasVal : {FALSE}, val : {0}]
          \cup [hasId : {FALSE}, id : {<<>>}, hasVal : BOOLEAN, val : {0}]

NoNotif == [hasId |-> FALSE, id |-> <<"none">>, hasVal |-> FALSE, val |-> 0]

\* what the stack may hold where at_handler's uninitialised locals id and val live
StackIds == {Pad(<<>>, ID_BUF_LEN), Pad(CEREG, ID_BUF_LEN)}
StackVals == {0, 5}

\* an identifier token and an integer status are both there
WellFormed(n) == n.hasId /\ Len(n.id) > 0 /\ n.hasVal

\* the identifier token is missing or shorter than "+CEREG", or it is "+CEREG"
\* and no integer status follows
Truncated(n) ==
    \/ ~n.hasId
    \/ Len(n.id) < Len(CEREG)
    \/ n.id = CEREG /\ ~n.hasVal

\* "+CEREG: 1" or "+CEREG: 5"
Registered(n) == n.hasId /\ n.id = CEREG /\ n.hasVal /\ n.val \in {1, 5}

---------------------------------------------------------------------------
(* at_params_string_get: copies the string parameter into buf without a    *)
(* terminator and stores its length; leaves both alone when the parameter  *)
(* is absent or longer than len.                                           *)

at_params_string_get(present, str, buf, len) ==
    IF ~present THEN [err |-> "-EINVAL", buf |-> buf, len |-> len]
    ELSE IF len < Len(str) THEN [err |-> "-ENOMEM", buf |-> buf, len |-> len]
    ELSE [err |-> "0",
          buf |-> str \o SubSeq(buf, Len(str) + 1, Len(buf)),
          len |-> Len(str)]

\* at_params_int_get: stores the integer parameter, or leaves val alone
at_params_int_get(present, v, val) == IF present THEN v ELSE val

---------------------------------------------------------------------------
(* at_handler *)

\* memcmp(id, "+CEREG", 6) == 0
IdMatches(id) == SubSeq(id, 1, CEREG_CMP_LEN) = CEREG

\* faulty variant: roaming registration (5) is not accepted
IsRegisteredOnlyHome(val) == val = 1

\* (val == 1) || (val == 5)
IsRegistered(val) == (val = 1) \/ (val = 5)

\* whether at_handler gives `link` for notification n, with the parameter
\* list initialised or not and the locals starting as sid, sval
HandlerGives(n, plist, sid, sval) ==
    LET sg == at_params_string_get(plist /\ n.hasId, n.id, sid, ID_BUF_LEN)
        val == at_params_int_get(plist /\ n.hasVal, n.val, sval)
    IN  /\ sg.len > 0
        /\ IdMatches(sg.buf)
        /\ IsRegistered(val)

\* history: at_handler reads no uninitialised byte of id or val, which needs
\* all the bytes memcmp compares and val to have been stored
ReadsDefined(n, plist) ==
    LET sg == at_params_string_get(plist /\ n.hasId, n.id, Pad(<<>>, ID_BUF_LEN),
                                   ID_BUF_LEN)
    IN  /\ sg.err = "0"
        /\ sg.len >= CEREG_CMP_LEN
        /\ plist /\ n.hasVal

NoGive == [notif |-> NoNotif, defined |-> TRUE, list |-> TRUE]

InFlight(t) == pc[t] \notin {"idle", "done"}

\* history: where thread 1 is when notification n gives the semaphore, and
\* whether n is a registered notification
GiveAt(n) == [at |-> pc[1], reg |-> Registered(n)]

NoAt == [at |-> "none", reg |-> FALSE]

\* history: the epoch a notification belongs to (0 between calls)
NotifTag == IF \E t \in Threads : InFlight(t) THEN epoch ELSE 0

WaitEvent(e) == [ev |-> "wait", arg |-> e, ok |-> (e = "0")]
CmdEvent(c, ok) == [ev |-> "cmd", arg |-> c, ok |-> ok]

\* faulty variant: the mode is switched without the offline command
FallbackStartSkipsOffline == "l208"

\* the first statement after retry = true: the offline command
FallbackStart == "l227"

\* faulty variant: the current mode is not looked at
ShouldFallbackAnyMode(mode) == UseFallback

\* faulty variant: the configuration is not looked at
ShouldFallbackAnyConfig(mode) == mode = nw_mode_preferred

\* IS_ENABLED(CONFIG_LTE_NETWORK_USE_FALLBACK) &&
\* (current_network_mode == nw_mode_preferred)
ShouldFallback(mode) == UseFallback /\ (mode = nw_mode_preferred)

\* faulty variant: the result of k_sem_take is returned as it is
TimeoutErrorIsTakeResult == "-EAGAIN"

\* err = -ETIMEDOUT
TimeoutError == "-ETIMEDOUT"

\* the return of k_sem_take(&link, ...) in thread t, and the code up to the
\* next command or the exit label
TakeReturn(t, e, tag) ==
    /\ trace' = [trace EXCEPT ![t] = Append(@, WaitEvent(e))]
    /\ wokeTag' = [wokeTag EXCEPT ![t] = tag]
    /\ IF e = "-EAGAIN"
       THEN IF ShouldFallback(current_network_mode[t])
            THEN /\ current_network_mode' =
                        [current_network_mode EXCEPT ![t] = nw_mode_fallback]
                 /\ retry' = [retry EXCEPT ![t] = TRUE]
                 /\ err' = [err EXCEPT ![t] = e]
                 /\ pc' = [pc EXCEPT ![t] = FallbackStart]
            ELSE /\ err' = [err EXCEPT ![t] = TimeoutError]
                 /\ pc' = [pc EXCEPT ![t] = "l240"]
                 /\ UNCHANGED <<current_network_mode, retry>>
       ELSE /\ err' = [err EXCEPT ![t] = e]
            /\ pc' = [pc EXCEPT ![t] = IF retry[t] THEN "l208" ELSE "l240"]
            /\ UNCHANGED <<current_network_mode, retry>>

\* faulty variant: the count has no limit
GiveCountUnbounded(count) == count + 1

\* the count of a semaphore of limit 1 after a give with no thread pended
GiveCount(count) == IF count < LINK_LIMIT THEN count + 1 ELSE count

\* k_sem_give(&link): the first pended thread takes the semaphore, and
\* without one the count goes up to its limit
k_sem_give ==
    IF waitq # {}
    THEN \E w \in waitq :
            /\ waitq' = waitq \ {w}
            /\ TakeReturn(w, "0", NotifTag)
            /\ UNCHANGED <<link, linkTag>>
    ELSE /\ link' = GiveCount(link)
         /\ linkTag' = IF link < LINK_LIMIT THEN NotifTag ELSE linkTag
         /\ UNCHANGED <<waitq, pc, current_network_mode, retry, err, trace, wokeTag>>

\* the callback, run by the command channel on notification n
at_handler(n) ==
    /\ handler = "at_handler"
    /\ \E sid \in StackIds, sval \in StackVals :
          IF HandlerGives(n, params, sid, sval)
          THEN /\ k_sem_give
               /\ lastGive' = [notif |-> n, defined |-> ReadsDefined(n, params),
                              list |-> params]
               /\ linkAt' = IF waitq = {} /\ link < LINK_LIMIT THEN GiveAt(n) ELSE linkAt
               /\ wokeAt' = [t \in Threads |->
                                IF t \in waitq \ waitq' THEN GiveAt(n) ELSE wokeAt[t]]
          ELSE UNCHANGED <<link, linkTag, linkAt, waitq, pc, current_network_mode, retry,
                           err, trace, wokeTag, wokeAt, lastGive>>
    /\ sigInWait' = [t \in Threads |->
                        sigInWait[t] \/ (Registered(n) /\ t \in waitq)]
    /\ regSeen' = [t \in Threads |->
                        regSeen[t] \/ (Registered(n) /\ InFlight(t))]
    /\ UNCHANGED <<UseFallback, handler, params, epoch, idleNotif, psmVars>>

\* a notification that comes while no callback is registered is dropped
NotifyDropped(n) ==
    /\ handler = NULL
    /\ idleNotif' = (idleNotif \/ (Registered(n) /\ epoch > 0
                                   /\ \A t \in Threads : ~InFlight(t)))
    /\ regSeen' = [t \in Threads |->
                        regSeen[t] \/ (Registered(n) /\ InFlight(t))]
    /\ UNCHANGED <<UseFallback, link, waitq, handler, params, pc,
                   current_network_mode, retry, err, epoch, trace, lastGive,
                   sigInWait, regSeen, linkTag, linkAt, wokeTag, wokeAt, psmVars>>

Notify == \E n \in Notifs : at_handler(n) \/ NotifyDropped(n)

---------------------------------------------------------------------------
(* w_lte_lc_connect, one action per statement that touches shared state or *)
(* the modem                                                               *)

\* entry: const char *current_network_mode = nw_mode_preferred
Call(t) ==
    /\ pc[t] \in {"idle", "done"}
    /\ epoch < MaxCalls
    /\ epoch' = epoch + 1
    /\ pc' = [pc EXCEPT ![t] = "l199"]
    /\ current_network_mode' = [current_network_mode EXCEPT ![t] = nw_mode_preferred]
    /\ retry' = [retry EXCEPT ![t] = FALSE]
    /\ err' = [err EXCEPT ![t] = "unset"]
    /\ trace' = [trace EXCEPT ![t] = <<>>]
    /\ sigInWait' = [sigInWait EXCEPT ![t] = FALSE]
    /\ regSeen' = [regSeen EXCEPT ![t] = FALSE]
    /\ wokeTag' = [wokeTag EXCEPT ![t] = 0]
    /\ wokeAt' = [wokeAt EXCEPT ![t] = NoAt]
    /\ lastGive' = NoGive
    /\ UNCHANGED <<UseFallback, link, waitq, handler, params, linkTag, linkAt, idleNotif,
                   psmVars>>

\* faulty variant: the count of the earlier call is kept
SemInitCountKept(count) == count

\* the count after k_sem_init(&link, 0, 1)
SemInitCount(count) == LINK_INITIAL

\* k_sem_init(&link, 0, 1): the count and the wait queue are reset
SemInit(t) ==
    /\ pc[t] = "l199"
    /\ link' = SemInitCount(link)
    /\ waitq' = {}
    /\ linkTag' = 0
    /\ linkAt' = NoAt
    /\ pc' = [pc EXCEPT ![t] = "l200"]
    /\ UNCHANGED <<UseFallback, handler, params, current_network_mode, retry, err,
                   epoch, trace, lastGive, sigInWait, regSeen, wokeTag, wokeAt, idleNotif, psmVars>>

\* at_cmd_set_notification_handler(at_handler)
SetHandler(t) ==
    /\ pc[t] = "l200"
    /\ handler' = "at_handler"
    /\ pc' = [pc EXCEPT ![t] = "l201"]
    /\ UNCHANGED <<UseFallback, link, waitq, params, current_network_mode, retry,
                   err, epoch, trace, lastGive, sigInWait, regSeen, linkTag, linkAt, wokeTag, wokeAt,
                   idleNotif, psmVars>>

\* at_params_list_init(&params, 10)
ListInit(t) ==
    /\ pc[t] = "l201"
    /\ params' = TRUE
    /\ pc' = [pc EXCEPT ![t] = "l208"]
    /\ UNCHANGED <<UseFallback, link, waitq, handler, current_network_mode, retry,
                   err, epoch, trace, lastGive, sigInWait, regSeen, linkTag, linkAt, wokeTag, wokeAt,
                   idleNotif, psmVars>>

\* faulty variant: the result of the write is not looked at
AfterWriteIgnoringFailure(ok, next) == next

\* if (at_cmd_write(...) != 0) { err = -EIO; goto exit; }
AfterWrite(ok, next) == IF ok THEN next ELSE "l240"

\* at_cmd_write(cmd, NULL, 0, NULL) at position `at`, going on at `next`
Write(t, at, cmd, next) ==
    /\ pc[t] = at
    /\ \E ok \in BOOLEAN :
          /\ trace' = [trace EXCEPT ![t] = Append(@, CmdEvent(cmd, ok))]
          /\ pc' = [pc EXCEPT ![t] = AfterWrite(ok, next)]
          /\ err' = [err EXCEPT ![t] = IF ok THEN @ ELSE "-EIO"]

\* retry = false; at_cmd_write(current_network_mode, ...)
WriteMode(t) ==
    /\ Write(t, "l208", current_network_mode[t], "l213")
    /\ retry' = [retry EXCEPT ![t] = FALSE]
    /\ UNCHANGED <<UseFallback, link, waitq, handler, params, current_network_mode,
                   epoch, lastGive, sigInWait, regSeen, linkTag, linkAt, wokeTag, wokeAt, idleNotif, psmVars>>

\* at_cmd_write(normal, ...)
WriteNormal(t) ==
    /\ Write(t, "l213", normal, "l218")
    /\ UNCHANGED <<UseFallback, link, waitq, handler, params, current_network_mode,
                   retry, epoch, lastGive, sigInWait, regSeen, linkTag, linkAt, wokeTag, wokeAt, idleNotif,
                   psmVars>>

\* k_sem_take(&link, K_SECONDS(CONFIG_LTE_NETWORK_TIMEOUT)) with the count
\* above zero: taken at once
SemTakeNow(t) ==
    /\ pc[t] = "l218"
    /\ link > 0
    /\ link' = link - 1
    /\ linkTag' = 0
    /\ linkAt' = NoAt
    /\ wokeAt' = [wokeAt EXCEPT ![t] = linkAt]
    /\ TakeReturn(t, "0", linkTag)
    /\ UNCHANGED <<UseFallback, waitq, handler, params, epoch, lastGive, sigInWait, regSeen,
                   idleNotif, psmVars>>

\* k_sem_take with the count at zero: the thread pends
SemTakePend(t) ==
    /\ pc[t] = "l218"
    /\ link = 0
    /\ waitq' = waitq \cup {t}
    /\ pc' = [pc EXCEPT ![t] = "wait"]
    /\ UNCHANGED <<UseFallback, link, handler, params, current_network_mode, retry,
                   err, epoch, trace, lastGive, sigInWait, regSeen, linkTag, linkAt, wokeTag, wokeAt,
                   idleNotif, psmVars>>

\* the timeout of k_sem_take expires: it returns -EAGAIN
SemTakeTimeout(t) ==
    /\ pc[t] = "wait"
    /\ waitq' = waitq \ {t}
    /\ TakeReturn(t, "-EAGAIN", 0)
    /\ wokeAt' = [wokeAt EXCEPT ![t] = NoAt]
    /\ UNCHANGED <<UseFallback, link, handler, params, epoch, lastGive, sigInWait, regSeen,
                   linkTag, linkAt, idleNotif, psmVars>>

\* while (retry), reached after the offline command
AfterOffline(t) == IF retry[t] THEN "l208" ELSE "l240"

\* at_cmd_write(offline, ...)
WriteOffline(t) ==
    /\ Write(t, "l227", offline, AfterOffline(t))
    /\ UNCHANGED <<UseFallback, link, waitq, handler, params, current_network_mode,
                   retry, epoch, lastGive, sigInWait, regSeen, linkTag, linkAt, wokeTag, wokeAt, idleNotif,
                   psmVars>>

\* exit: at_params_list_free(&params)
ListFree(t) ==
    /\ pc[t] = "l240"
    /\ params' = FALSE
    /\ pc' = [pc EXCEPT ![t] = "l241"]
    /\ UNCHANGED <<UseFallback, link, waitq, handler, current_network_mode, retry,
                   err, epoch, trace, lastGive, sigInWait, regSeen, linkTag, linkAt, wokeTag, wokeAt,
                   idleNotif, psmVars>>

\* faulty variant: the callback stays registered
ExitHandlerKept == "at_handler"

\* the argument of at_cmd_set_notification_handler at exit
ExitHandler == NULL

\* at_cmd_set_notification_handler(NULL); return err
Return(t) ==
    /\ pc[t] = "l241"
    /\ handler' = ExitHandler
    /\ pc' = [pc EXCEPT ![t] = "done"]
    /\ UNCHANGED <<UseFallback, link, waitq, params, current_network_mode, retry,
                   err, epoch, trace, lastGive, sigInWait, regSeen, linkTag, linkAt, wokeTag, wokeAt,
                   idleNotif, psmVars>>

Connect(t) ==
    \/ Call(t)
    \/ SemInit(t)
    \/ SetHandler(t)
    \/ ListInit(t)
    \/ WriteMode(t)
    \/ WriteNormal(t)
    \/ SemTakeNow(t)
    \/ SemTakePend(t)
    \/ SemTakeTimeout(t)
    \/ WriteOffline(t)
    \/ ListFree(t)
    \/ Return(t)

---------------------------------------------------------------------------
(* Specifications of connect *)

PsmIdle == [used |-> FALSE]

ConnInit ==
    /\ UseFallback \in BOOLEAN
    /\ link = 0
    /\ waitq = {}
    /\ handler = NULL
    /\ params = FALSE
    /\ pc = [t \in Threads |-> "idle"]
    /\ current_network_mode = [t \in Threads |-> nw_mode_preferred]
    /\ retry = [t \in Threads |-> FALSE]
    /\ err = [t \in Threads |-> "unset"]
    /\ epoch = 0
    /\ trace = [t \in Threads |-> <<>>]
    /\ lastGive = NoGive
    /\ sigInWait = [t \in Threads |-> FALSE]
    /\ regSeen = [t \in Threads |-> FALSE]
    /\ linkTag = 0
    /\ wokeTag = [t \in Threads |-> 0]
    /\ linkAt = NoAt
    /\ wokeAt = [t \in Threads |-> NoAt]
    /\ idleNotif = FALSE

Init ==
    /\ ConnInit
    /\ psmIn = PsmIdle
    /\ psmOut = PsmIdle

\* one thread calls connect, again and again; notifications come at any time
Next == Connect(1) \/ Notify

Spec == Init /\ [][Next]_vars

\* the notifications of the two-thread specification
ConcNotifs == {n \in Notifs : n.hasId /\ n.hasVal /\ n.val \in {1, 2}
                               /\ n.id \in {CEREG, <<"+", "C", "S", "C", "O", "N">>}}

NotifyConc == \E n \in ConcNotifs : at_handler(n) \/ NotifyDropped(n)

\* two threads call connect
NextConc == (\E t \in Threads : Connect(t)) \/ NotifyConc

SpecConc == Init /\ [][NextConc]_vars

---------------------------------------------------------------------------
(* lte_lc_psm_get                                                          *)
(*                                                                         *)
(* A 32-bit unsigned value (size_t index, u32_t timer_unit, timer_value)   *)
(* is held as the signed integer with the same 32 bits, which is also the  *)
(* int that the assignment to *tau or *active_time stores.                 *)

AT_CEREG_5 == "AT+CEREG=5"
AT_CEREG_READ == "AT+CEREG?"
AT_CEREG_PARAMS_COUNT == 10
AT_CEREG_ACTIVE_TIME_INDEX == 8
AT_CEREG_TAU_INDEX == 9

\* sizeof(timer_str) - 1 and sizeof(unit_str) - 1
TIMER_STR_LEN == 8
UNIT_STR_LEN == 3

t3324_lookup == <<2, 60, 600, 60, 60, 60, 60, 0>>
t3412_lookup == <<600, 3600, 36000, 2, 30, 60, 1152000, 0>>

\* the C string held in a buffer: the characters before the first NUL
RECURSIVE CStr(_)
CStr(buf) == IF buf = <<>> \/ Head(buf) = NUL THEN <<>>
             ELSE <<Head(buf)>> \o CStr(Tail(buf))

RECURSIVE SkipSpace(_)
SkipSpace(s) == IF s # <<>> /\ Head(s) = " " THEN SkipSpace(Tail(s)) ELSE s

\* the value of the leading binary digits of s, after acc
RECURSIVE Digits2(_, _)
Digits2(s, acc) ==
    IF s # <<>> /\ Head(s) \in {"0", "1"}
    THEN Digits2(Tail(s), 2 * acc + (IF Head(s) = "1" THEN 1 ELSE 0))
    ELSE acc

\* strtoul(s, NULL, 2): white space, an optional sign, then binary digits up
\* to the first other character; a minus sign negates the value as unsigned
strtoul2(s) ==
    LET t == SkipSpace(s)
        neg == t # <<>> /\ Head(t) = "-"
        d == IF t # <<>> /\ Head(t) \in {"-", "+"} THEN Tail(t) ELSE t
    IN  IF neg THEN 0 - Digits2(d, 0) ELSE Digits2(d, 0)

\* index > (ARRAY_SIZE(lookup) - 1), an unsigned comparison
IndexTooBig(index, lookup) == index < 0 \/ index > Len(lookup) - 1

\* at_params_string_get on a parameter list: the parameter must be there and
\* be a string
ListStringGet(list, index, buf, len) ==
    at_params_string_get(index < Len(list) /\ list[index + 1].type = "str",
                         IF index < Len(list) THEN list[index + 1].str ELSE <<>>,
                         buf, len)

\* memcpy(unit_str, timer_str, unit_str_len), unit_str[3] staying 0
UnitStr(timer_str) == SubSeq(timer_str, 1, UNIT_STR_LEN) \o <<NUL>>

\* index = strtoul(unit_str, NULL, 2)
UnitIndex(timer_str) == strtoul2(CStr(UnitStr(timer_str)))

\* timer_value = strtoul(timer_str + unit_str_len, NULL, 2)
TimerValue(timer_str) ==
    strtoul2(CStr(SubSeq(timer_str, UNIT_STR_LEN + 1, Len(timer_str))))

\* timer_unit ? timer_unit * timer_value : -1
TimerSeconds(lookup, timer_str) ==
    LET timer_unit == lookup[UnitIndex(timer_str) + 1]
    IN  IF timer_unit # 0 THEN timer_unit * TimerValue(timer_str) ELSE -1

\* faulty variant: periodic TAU is read from the active-time field
TauIndexSwapped == AT_CEREG_ACTIVE_TIME_INDEX

\* the reply field read as periodic TAU
TauIndex == AT_CEREG_TAU_INDEX

\* the reply field read as active time
ActiveTimeIndex == AT_CEREG_ACTIVE_TIME_INDEX

PsmResult(ret, cmds, tauSet, tau, actSet, act) ==
    [used |-> TRUE, ret |-> ret, cmds |-> cmds,
     tauSet |-> tauSet, tau |-> tau, actSet |-> actSet, active_time |-> act]

\* faulty variant: a call that fails stores a default active time
PsmErrorDefaultsActiveTime(ret, cmds, tauSet, tau) ==
    PsmResult(ret, cmds, tauSet, tau, TRUE, 0)

\* a return with an error: *active_time has not been stored
PsmError(ret, cmds, tauSet, tau) == PsmResult(ret, cmds, tauSet, tau, FALSE, 0)

\* faulty variant: the reply is read before the notifications are subscribed
FirstCommandIsRead == AT_CEREG_READ

\* the command of the first at_cmd_write of lte_lc_psm_get
FirstCommand == AT_CEREG_5

\* the command of its second at_cmd_write
SecondCommand == AT_CEREG_READ

\* faulty variant: only tau is looked at
NullDestinationOnlyTau(in) == in.tauNull

\* (tau == NULL) || (active_time == NULL)
NullDestination(in) == in.tauNull \/ in.actNull

\* lte_lc_psm_get(tau, active_time) on input in
lte_lc_psm_get(in) ==
    LET c1 == <<FirstCommand>>
        c2 == <<FirstCommand, SecondCommand>>
        timer_str0 == Pad(<<>>, TIMER_STR_LEN + 1)
        g1 == ListStringGet(in.list, TauIndex, timer_str0, TIMER_STR_LEN)
        tau == TimerSeconds(t3412_lookup, g1.buf)
        g2 == ListStringGet(in.list, ActiveTimeIndex, g1.buf, g1.len)
        act == TimerSeconds(t3324_lookup, g2.buf)
    IN  IF NullDestination(in) THEN PsmError("-EINVAL", <<>>, FALSE, 0)
        ELSE IF in.w1 # "0" THEN PsmError(in.w1, c1, FALSE, 0)
        ELSE IF in.w2 # "0" THEN PsmError(in.w2, c2, FALSE, 0)
        ELSE IF in.init # "0" THEN PsmError(in.init, c2, FALSE, 0)
        ELSE IF in.parse # "0" THEN PsmError(in.parse, c2, FALSE, 0)
        ELSE IF g1.err # "0" THEN PsmError(g1.err, c2, FALSE, 0)
        ELSE IF IndexTooBig(UnitIndex(g1.buf), t3412_lookup)
             THEN PsmError("-EINVAL", c2, FALSE, 0)
        ELSE IF g2.err # "0" THEN PsmError(g2.err, c2, TRUE, tau)
        ELSE IF IndexTooBig(UnitIndex(g2.buf), t3324_lookup)
             THEN PsmError("-EINVAL", c2, TRUE, tau)
        ELSE PsmResult("0", c2, TRUE, tau, TRUE, act)

---------------------------------------------------------------------------
(* Inputs of lte_lc_psm_get *)

RECURSIVE BinStr(_)
BinStr(n) == IF n = 0 THEN {<<>>}
             ELSE {Append(s, c) : s \in BinStr(n - 1), c \in {"0", "1"}}

\* every 8-character binary field
Bin8 == BinStr(TIMER_STR_LEN)

B(str) == [type |-> "str", str |-> str]
IntParam == [type |-> "int", str |-> <<>>]

SomeBin == {<<"0", "0", "1", "0", "0", "1", "0", "1">>,
            <<"0", "0", "0", "0", "0", "0", "1", "0">>,
            <<"1", "1", "1", "0", "0", "0", "0", "0">>,
            <<"1", "1", "0", "1", "1", "1", "1", "1">>}

BadChars == {"x", "-", "+", " "}

\* fields that are not 8 binary characters: shorter, longer, or with one
\* other character
ShortFields == UNION {BinStr(n) : n \in 0 .. TIMER_STR_LEN - 1}
LongFields == {Append(s, "1") : s \in SomeBin}
NonBinFields == {[s EXCEPT ![i] = c] : s \in BinStr(TIMER_STR_LEN),
                                       i \in 1 .. TIMER_STR_LEN, c \in BadChars}
SomeShort == {SubSeq(s, 1, n) : s \in SomeBin, n \in {0, 2, 3, 5, 7}}
Malformed == ShortFields \cup LongFields \cup NonBinFields

\* the parameter list of a reply "+CEREG: 5,1,..." with the two timer fields
Reply(act, tau) ==
    <<B(<<"+", "C", "E", "R", "E", "G">>), IntParam, IntParam, B(<<"0">>),
      B(<<"1">>), IntParam, IntParam, IntParam, act, tau>>

AllOk(list) == [used |-> TRUE, tauNull |-> FALSE, actNull |-> FALSE, w1 |-> "0",
                w2 |-> "0", init |-> "0", parse |-> "0", list |-> list]

SomeReplies == {Reply(B(a), B(t)) : a \in SomeBin, t \in SomeBin}
               \cup {Reply(IntParam, B(t)) : t \in SomeBin}
               \cup {Reply(B(a), IntParam) : a \in SomeBin}
               \cup {SubSeq(Reply(IntParam, IntParam), 1, n) : n \in {0, 5, 9}}

FlagInputs ==
    [used : {TRUE}, tauNull : BOOLEAN, actNull : BOOLEAN, w1 : {"0", "-EIO"},
     w2 : {"0", "-EIO"}, init : {"0", "-ENOMEM"}, parse : {"0", "-E2BIG"},
     list : {Reply(B(a), B(a)) : a \in SomeBin}]

\* the inputs lte_lc_psm_get is run on
PsmInput(in) ==
    \/ \E a \in Bin8, t \in Bin8 : in = AllOk(Reply(B(a), B(t)))
    \/ \E a \in SomeBin, t \in Malformed : in = AllOk(Reply(B(a), B(t)))
    \/ \E a \in Malformed, t \in SomeBin : in = AllOk(Reply(B(a), B(t)))
    \/ \E a \in SomeShort, t \in SomeShort : in = AllOk(Reply(B(a), B(t)))
    \/ \E l \in SomeReplies : in = AllOk(l)
    \/ in \in FlagInputs

PsmCall ==
    /\ psmIn # PsmIdle
    /\ psmOut = PsmIdle
    /\ psmOut' = lte_lc_psm_get(psmIn)
    /\ UNCHANGED <<connVars, psmIn>>

InitPsm ==
    /\ ConnInit
    /\ UseFallback = FALSE
    /\ PsmInput(psmIn)
    /\ psmOut = PsmIdle

NextPsm == PsmCall

SpecPsm == InitPsm /\ [][NextPsm]_vars

---------------------------------------------------------------------------
(* Properties of connect, stated of the calling thread 1 of Spec *)

tr == trace[1]

IsCmd(e, c) == e.ev = "cmd" /\ e.arg = c
IsModeCmd(e) == e.ev = "cmd" /\ e.arg \in {nw_mode_preferred, nw_mode_fallback}
IsTimeout(e) == e = WaitEvent("-EAGAIN")

Timeouts == {i \in DOMAIN tr : IsTimeout(tr[i])}
FirstTimeout == CHOOSE i \in Timeouts : \A j \in Timeouts : i <= j
CountCmd(c) == Cardinality({i \in DOMAIN tr : IsCmd(tr[i], c)})

\* what the call has written and waited for since its first timeout
Rest == SubSeq(tr, FirstTimeout + 1, Len(tr))

Exiting == pc[1] \in {"l240", "l241", "done"}

\* C1 as the claim states it: with fallback enabled and no registered
\* notification during the call, a call that has returned after a timeout has
\* sent, right after the first timeout, one offline command and then one
\* fallback mode-selection command, one of each in the whole call, and a
\* second timeout is the last event of the call and makes it return -ETIMEDOUT.
C1_Original ==
    (UseFallback /\ ~regSeen[1] /\ pc[1] = "done" /\ Timeouts # {}) =>
        /\ Len(Rest) >= 2
        /\ IsCmd(Rest[1], offline)
        /\ IsCmd(Rest[2], nw_mode_fallback)
        /\ CountCmd(offline) = 1
        /\ CountCmd(nw_mode_fallback) = 1
        /\ (Cardinality(Timeouts) >= 2 =>
                /\ IsTimeout(tr[Len(tr)])
                /\ Cardinality(Timeouts) = 2
                /\ err[1] = "-ETIMEDOUT")

\* C1 as amended: with fallback enabled and no registered notification during
\* the call, the first timeout is followed by exactly one offline command and,
\* when the write of that command succeeds, by exactly one fallback
\* mode-selection command (when it fails the call returns -EIO and sends no
\* mode-selection command); a second timeout ends the call with -ETIMEDOUT and
\* nothing is sent after it; the switch to fallback happens at most once.
C1_FallbackOnce ==
    (UseFallback /\ ~regSeen[1]) =>
        /\ CountCmd(offline) <= 1
        /\ CountCmd(nw_mode_fallback) <= 1
        /\ Cardinality(Timeouts) <= 2
        /\ Timeouts # {} =>
            /\ Len(Rest) >= 1 => IsCmd(Rest[1], offline)
            /\ Len(Rest) >= 2 => Rest[1].ok /\ IsCmd(Rest[2], nw_mode_fallback)
            /\ Len(Rest) = 0 => pc[1] = "l227"
            /\ (Len(Rest) = 1 /\ ~Rest[1].ok) => Exiting /\ err[1] = "-EIO"
            /\ (Len(Rest) = 1 /\ Rest[1].ok) => pc[1] = "l208"
            /\ pc[1] = "done" => CountCmd(offline) = 1
            /\ (pc[1] = "done" /\ Rest[1].ok) => CountCmd(nw_mode_fallback) = 1
            /\ Cardinality(Timeouts) = 2 =>
                /\ IsTimeout(tr[Len(tr)])
                /\ Exiting
                /\ err[1] = "-ETIMEDOUT"

\* C1 witness: a call with fallback enabled and no registered notification
\* has returned after timing out in both modes.
C1_Witness ==
    /\ UseFallback
    /\ ~regSeen[1]
    /\ pc[1] = "done"
    /\ Cardinality(Timeouts) = 2
    /\ err[1] = "-ETIMEDOUT"

\* C2: with fallback disabled neither the offline command nor the fallback
\* mode-selection command is ever sent, and a wait that times out ends the
\* call, which returns -ETIMEDOUT.
C2_NoFallbackWhenDisabled ==
    ~UseFallback =>
        /\ CountCmd(offline) = 0
        /\ CountCmd(nw_mode_fallback) = 0
        /\ Timeouts # {} =>
            /\ IsTimeout(tr[Len(tr)])
            /\ Cardinality(Timeouts) = 1
            /\ Exiting
            /\ err[1] = "-ETIMEDOUT"

\* C2 witness: a call with fallback disabled has timed out and returned.
C2_Witness ==
    /\ ~UseFallback
    /\ pc[1] = "done"
    /\ Timeouts # {}

\* C3: once a "+CEREG" notification with status 1 or 5 has reached the
\* listener while the call was pended on the semaphore, that wait has ended
\* with 0, nothing has been sent since, and the call returns 0.
C3_SignalledWaitSucceeds ==
    sigInWait[1] =>
        /\ tr # <<>>
        /\ tr[Len(tr)] = WaitEvent("0")
        /\ Exiting
        /\ err[1] = "0"

\* C3 witness: the call was signalled while waiting in fallback mode, after
\* the preferred mode timed out, and has returned.
C3_Witness ==
    /\ sigInWait[1]
    /\ current_network_mode[1] = nw_mode_fallback
    /\ Timeouts # {}
    /\ pc[1] = "done"

\* C4 as the claim states it, for the notifications the listener decides on
\* without reading an uninitialised byte: a well-formed notification for
\* which the listener gives the semaphore has exactly the identifier "+CEREG"
\* and status 1 or 5.
C4_OnlyRegisteredGives ==
    (lastGive # NoGive /\ WellFormed(lastGive.notif) /\ lastGive.defined)
        => Registered(lastGive.notif)

\* from k_sem_init through at_cmd_set_notification_handler(NULL)
InBody(t) == pc[t] \in {"l199", "l200", "l201", "l208", "l213", "l218", "wait",
                        "l227", "l240", "l241"}

\* C5 as the claim states it: the bodies of two connect calls never overlap.
C5_OneConnectAtATime == ~(InBody(1) /\ InBody(2))

\* C6: a mode-selection or activation command whose write failed is the last
\* thing the call did with the modem or the semaphore, and the call returns
\* -EIO.
C6_WriteFailureIsFatal ==
    \A i \in DOMAIN tr :
        (tr[i].ev = "cmd" /\ tr[i].arg # offline /\ ~tr[i].ok) =>
            /\ i = Len(tr)
            /\ Exiting
            /\ err[1] = "-EIO"

\* C6 witness: the activation command failed in the fallback iteration and
\* the call has returned.
C6_Witness ==
    /\ pc[1] = "done"
    /\ tr # <<>>
    /\ tr[Len(tr)] = CmdEvent(normal, FALSE)
    /\ current_network_mode[1] = nw_mode_fallback

\* C7: every activation command comes right after a mode-selection command
\* that succeeded, and before every fallback mode-selection command an offline
\* command succeeded with no activation command in between.
C7_CommandOrder ==
    /\ \A i \in DOMAIN tr :
          IsCmd(tr[i], normal) => (i > 1 /\ IsModeCmd(tr[i - 1]) /\ tr[i - 1].ok)
    /\ \A i \in DOMAIN tr :
          IsCmd(tr[i], nw_mode_fallback) =>
              \E j \in 1 .. i - 1 :
                  /\ tr[j] = CmdEvent(offline, TRUE)
                  /\ \A k \in j .. i : ~IsCmd(tr[k], normal)

\* C7 witness: a call has sent the fallback mode-selection command and the
\* activation command after it.
C7_Witness ==
    /\ CountCmd(nw_mode_fallback) = 1
    /\ CountCmd(normal) = 2

\* C8: whenever no call is in flight the callback slot is empty, and a call
\* that returns 0 took a semaphore count given by a notification of that same
\* call, never one that came between calls or during an earlier call.
C8_UnregisteredOnReturn ==
    /\ pc[1] \in {"idle", "done"} => handler = NULL
    /\ (pc[1] = "done" /\ err[1] = "0") => (wokeTag[1] = epoch /\ epoch > 0)

\* C8 witness: a registered notification came between two calls and the
\* second call has returned.
C8_Witness ==
    /\ idleNotif
    /\ epoch = 2
    /\ pc[1] = "done"

\* C12: the count of `link` is 0 or 1 in every state, however many
\* notifications the listener gives it for, no thread is pended while the
\* count is 1, and the count is 0 right after k_sem_init, before the callback
\* is registered.
C12_BinarySemaphore ==
    /\ link \in {0, 1}
    /\ link = 1 => waitq = {}
    /\ pc[1] = "l200" => link = 0

\* C13 as the claim states it: the listener, its parameter list initialised,
\* never gives the semaphore for a notification whose identifier is missing
\* or shorter than "+CEREG", or that is "+CEREG" with no integer status,
\* whatever the bytes of id and val were before parsing.
C13_TruncatedNeverGives ==
    (lastGive # NoGive /\ lastGive.list) => ~Truncated(lastGive.notif)

\* C12 witness: a wait of the call was ended by a give, the listener has
\* given again since, and the count is 1.
C12_Witness ==
    /\ link = 1
    /\ Exiting
    /\ err[1] = "0"
    /\ lastGive # NoGive

\* where the thread is from the activation command of an attempt to the end
\* of its wait
AfterActivation == {"l218", "wait"}

\* where the thread is while the callback is registered and no wait of the
\* call has succeeded
Listening == {"l201", "l208", "l213", "l218", "wait", "l227"}

\* C17 as the claim states it: when a call returns 0 and the give that ended
\* its last wait was for a registered notification, parsed into the
\* initialised parameter list, that notification came after the activation
\* command of the attempt the call was in when it returned.
C17_Original ==
    (pc[1] = "done" /\ err[1] = "0" /\ wokeAt[1].reg /\ wokeAt[1].at # "l201") =>
        wokeAt[1].at \in AfterActivation

\* C17 as amended: when a call returns 0, the give that ended its last wait
\* happened during that call, after the callback was registered, at any point
\* up to the end of that wait; a count given while the call is not waiting
\* is kept until the next k_sem_take of the call.
C17_GiveSinceRegistration ==
    /\ (Exiting /\ err[1] = "0") =>
          /\ tr[Len(tr)] = WaitEvent("0")
          /\ wokeAt[1].at \in Listening
    /\ (link = 1 /\ pc[1] \in Listening) => linkAt.at \in Listening

\* C17 witness: a registered notification came after the timeout of the
\* preferred mode and before the offline command, and the call has returned 0
\* from the wait of the fallback mode.
C17_Witness ==
    /\ pc[1] = "done"
    /\ err[1] = "0"
    /\ wokeAt[1].reg
    /\ wokeAt[1].at = "l227"
    /\ Cardinality(Timeouts) = 1

\* C18 as the claim states it: whenever the callback is registered, the
\* parameter list is initialised and not yet freed.
C18_ListLivesWhileRegistered == handler = "at_handler" => params

Waits == {i \in DOMAIN tr : tr[i].ev = "wait"}

\* C14: a call in flight can always take its next step (a wait can always
\* time out), it waits at most twice and sends at most five commands, so it
\* returns; it returns 0, -ETIMEDOUT or -EIO; and the timeout of the second
\* wait, the one in fallback mode, is the last event of the call and makes it
\* return -ETIMEDOUT.
C14_ConnectTerminates ==
    /\ InFlight(1) => ENABLED Connect(1)
    /\ Cardinality(Waits) <= 2
    /\ Len(tr) <= 7
    /\ Cardinality(Waits) = 2 =>
          /\ IsTimeout(tr[FirstTimeout])
          /\ current_network_mode[1] = nw_mode_fallback
    /\ pc[1] = "done" => err[1] \in {"0", "-ETIMEDOUT", "-EIO"}
    /\ Cardinality(Timeouts) = 2 =>
          /\ IsTimeout(tr[Len(tr)])
          /\ Exiting
          /\ err[1] = "-ETIMEDOUT"

\* C14 witness: a call has returned 0 from its second wait, after seven
\* events.
C14_Witness ==
    /\ pc[1] = "done"
    /\ Cardinality(Waits) = 2
    /\ Len(tr) = 7
    /\ err[1] = "0"

LastWait == CHOOSE i \in Waits : \A j \in Waits : j <= i

\* C19: the value a call returns is 0, -EIO or -ETIMEDOUT, never the -EAGAIN
\* of k_sem_take; it is 0 exactly when the last wait of the call took the
\* semaphore, -ETIMEDOUT exactly when the call ended with a timeout, and -EIO
\* exactly when it ended with a failed write.
C19_ReturnValues ==
    Exiting =>
        /\ err[1] \in {"0", "-EIO", "-ETIMEDOUT"}
        /\ err[1] # "-EAGAIN"
        /\ err[1] = "0" <=> (Waits # {} /\ tr[LastWait].ok)
        /\ err[1] = "-ETIMEDOUT" <=> (tr # <<>> /\ IsTimeout(tr[Len(tr)]))
        /\ err[1] = "-EIO" <=> (tr # <<>> /\ tr[Len(tr)].ev = "cmd" /\ ~tr[Len(tr)].ok)

\* C19 witness: the preferred mode timed out, the call went on to the
\* fallback mode, a write failed there, and the call has returned -EIO.
C19_Witness ==
    /\ pc[1] = "done"
    /\ Cardinality(Timeouts) = 1
    /\ current_network_mode[1] = nw_mode_fallback
    /\ CountCmd(nw_mode_fallback) = 1
    /\ err[1] = "-EIO"

---------------------------------------------------------------------------
(* Properties of lte_lc_psm_get, stated of SpecPsm *)

\* the value of a string of binary digits
RECURSIVE BitVal(_)
BitVal(b) == IF b = <<>> THEN 0
             ELSE 2 * BitVal(SubSeq(b, 1, Len(b) - 1))
                  + (IF b[Len(b)] = "1" THEN 1 ELSE 0)

TauTable == <<600, 3600, 36000, 2, 30, 60, 1152000, 0>>
ActiveTimeTable == <<2, 60, 600, 60, 60, 60, 60, 0>>

\* table[u] * m for unit selector u (first 3 bits) and magnitude m (last 5
\* bits), and -1 when table[u] is 0
Decoded(table, f) ==
    LET u == BitVal(SubSeq(f, 1, 3))
        m == BitVal(SubSeq(f, 4, 8))
    IN  IF table[u + 1] # 0 THEN table[u + 1] * m ELSE -1

\* both destinations given, both commands written, the reply parsed into its
\* ten parameters, the two timer fields strings
PsmAnswered ==
    /\ psmOut.used
    /\ psmIn = AllOk(psmIn.list)
    /\ Len(psmIn.list) = AT_CEREG_PARAMS_COUNT
    /\ psmIn.list[9].type = "str"
    /\ psmIn.list[10].type = "str"

Field8 == psmIn.list[9].str
Field9 == psmIn.list[10].str

Str8(a, b, c, d, e, f, g, h) == <<a, b, c, d, e, f, g, h>>

\* C9: with both timer fields 8 binary characters, the call returns 0 with
\* *tau decoded from reply field 9 by the TAU table and *active_time from
\* reply field 8 by the active-time table; 00100101 as active time is 300,
\* 00000010 as TAU is 1200 and 11100000 is -1 with either table.
C9_DecodesBinaryFields ==
    (PsmAnswered /\ Field8 \in Bin8 /\ Field9 \in Bin8) =>
        /\ psmOut.ret = "0"
        /\ psmOut.tauSet /\ psmOut.actSet
        /\ psmOut.tau = Decoded(TauTable, Field9)
        /\ psmOut.active_time = Decoded(ActiveTimeTable, Field8)
        /\ Field8 = Str8("0", "0", "1", "0", "0", "1", "0", "1")
              => psmOut.active_time = 300
        /\ Field9 = Str8("0", "0", "0", "0", "0", "0", "1", "0")
              => psmOut.tau = 1200
        /\ Field9 = Str8("1", "1", "1", "0", "0", "0", "0", "0")
              => psmOut.tau = -1
        /\ Field8 = Str8("1", "1", "1", "0", "0", "0", "0", "0")
              => psmOut.active_time = -1

\* C9 witness: active time 00100101 has been decoded to 300 and TAU 00000010
\* to 1200.
C9_Witness ==
    /\ PsmAnswered
    /\ Field8 = Str8("0", "0", "1", "0", "0", "1", "0", "1")
    /\ Field9 = Str8("0", "0", "0", "0", "0", "0", "1", "0")
    /\ psmOut.ret = "0"
    /\ psmOut.active_time = 300
    /\ psmOut.tau = 1200

\* C10 as the claim states it: when either timer field is not 8 binary
\* characters the call does not return 0.
C10_MalformedIsError ==
    (PsmAnswered /\ (Field8 \notin Bin8 \/ Field9 \notin Bin8)) => psmOut.ret # "0"

\* C11: a call with tau or active_time null returns -EINVAL and has sent no
\* command, whatever the modem would have answered.
C11_NullDestinationRejected ==
    (psmOut.used /\ (psmIn.tauNull \/ psmIn.actNull)) =>
        /\ psmOut.ret = "-EINVAL"
        /\ psmOut.cmds = <<>>
        /\ ~psmOut.tauSet /\ ~psmOut.actSet

\* C11 witness: a call with only active_time null, on a modem that would have
\* answered both commands, has returned -EINVAL.
C11_Witness ==
    /\ psmOut.used
    /\ ~psmIn.tauNull /\ psmIn.actNull
    /\ psmIn.w1 = "0" /\ psmIn.w2 = "0"
    /\ psmOut.ret = "-EINVAL"
    /\ psmOut.cmds = <<>>

\* C15: the commands of a call are none, AT+CEREG=5 alone, or AT+CEREG=5
\* followed by AT+CEREG?; a call with both destinations given sends AT+CEREG=5
\* first, and when that write fails it sends nothing else, returns the error of
\* the write and stores neither *tau nor *active_time.
C15_SubscribeBeforeRead ==
    psmOut.used =>
        /\ psmOut.cmds \in {<<>>, <<AT_CEREG_5>>, <<AT_CEREG_5, AT_CEREG_READ>>}
        /\ (~psmIn.tauNull /\ ~psmIn.actNull) =>
              /\ psmOut.cmds # <<>>
              /\ psmOut.cmds[1] = AT_CEREG_5
              /\ psmIn.w1 # "0" =>
                    /\ psmOut.cmds = <<AT_CEREG_5>>
                    /\ psmOut.ret = psmIn.w1
                    /\ ~psmOut.tauSet /\ ~psmOut.actSet

\* C15 witness: the subscription command failed on a modem that would have
\* answered the read command, and the call has returned the error.
C15_Witness ==
    /\ psmOut.used
    /\ ~psmIn.tauNull /\ ~psmIn.actNull
    /\ psmIn.w1 = "-EIO" /\ psmIn.w2 = "0"
    /\ psmOut.cmds = <<AT_CEREG_5>>
    /\ psmOut.ret = "-EIO"

\* what the claim allows a stored duration to be
InRange(seconds) == seconds = -1 \/ (0 <= seconds /\ seconds <= 1152000 * 31)

\* C16 as the claim states it: with both timer fields 8 characters long,
\* binary or not, a stored *tau or *active_time comes from a unit selector in
\* 0..7 and a magnitude in 0..31 and is -1 or a second count from 0 to
\* 1152000 * 31.
C16_TimerValuesInRange ==
    (PsmAnswered /\ Len(Field8) = TIMER_STR_LEN /\ Len(Field9) = TIMER_STR_LEN) =>
        /\ psmOut.tauSet =>
              /\ UnitIndex(Field9) \in 0 .. 7
              /\ TimerValue(Field9) \in 0 .. 31
              /\ InRange(psmOut.tau)
        /\ psmOut.actSet =>
              /\ UnitIndex(Field8) \in 0 .. 7
              /\ TimerValue(Field8) \in 0 .. 31
              /\ InRange(psmOut.active_time)

\* what the call reads as the periodic-TAU field
TauGet == ListStringGet(psmIn.list, TauIndex, Pad(<<>>, TIMER_STR_LEN + 1),
                        TIMER_STR_LEN)

\* the call fails before or at the periodic-TAU field
FailsByTau ==
    \/ psmIn # AllOk(psmIn.list)
    \/ TauGet.err # "0"
    \/ IndexTooBig(UnitIndex(TauGet.buf), t3412_lookup)

\* C20 as the claim states it: a call that returns an error has stored
\* neither *tau nor *active_time.
C20_Original ==
    (psmOut.used /\ psmOut.ret # "0") => (~psmOut.tauSet /\ ~psmOut.actSet)

\* C20 as amended: *active_time is stored exactly by the calls that return 0,
\* and those have stored *tau as well; a call that fails on a null
\* destination, a write, the parse of the reply or the periodic-TAU field has
\* stored neither; a call that fails later, on the active-time field, has
\* stored *tau.
C20_ActiveTimeOnlyOnSuccess ==
    psmOut.used =>
        /\ psmOut.actSet <=> psmOut.ret = "0"
        /\ psmOut.ret = "0" => psmOut.tauSet
        /\ FailsByTau => (psmOut.ret # "0" /\ ~psmOut.tauSet)
        /\ (psmOut.ret # "0" /\ ~FailsByTau) => psmOut.tauSet

\* C20 witness: the reply has a periodic-TAU field and no active-time
\* string, and the call has returned an error with *tau stored.
C20_Witness ==
    /\ psmOut.used
    /\ psmIn = AllOk(psmIn.list)
    /\ Len(psmIn.list) = AT_CEREG_PARAMS_COUNT
    /\ psmIn.list[9].type = "int"
    /\ psmOut.ret # "0"
    /\ psmOut.tauSet /\ psmOut.tau = 1200
    /\ ~psmOut.actSet

=============================================================================
